---- MODULE Spec2Model ----
(***************************************************************************)
(* Model of the final deferred/promise engine of src/promise.js            *)
(* (defer / then / resolve / reject / Resolve, lines 875-926).             *)
(*                                                                         *)
(* A deferred is a closure holding the two variables `callback` and        *)
(* `errback`; `then` overwrites both and creates the next deferred of the  *)
(* chain; `resolve` and `reject` call whatever is registered at that       *)
(* moment, synchronously.  Handlers supplied by the caller are inputs:     *)
(* each one is described by what it does when invoked (return a plain      *)
(* value, return nothing, throw, or return the promise of a deferred it    *)
(* has just created, as readFile does).                                    *)
(*                                                                         *)
(* Second part: the coroutine runner of src/unnamed/part_000 (run, toThunk *)
(* and arrayToThunk, lines 365-413).  The procedure handed to run and the  *)
(* thunks it yields are inputs; a thunk completes when the environment     *)
(* calls its completion callback.                                          *)
(***************************************************************************)
EXTENDS Integers, Sequences, FiniteSets, TLC

\* ---------------------------------------------------------------- bounds
MaxThen  == 2       \* then() calls made by consumers
MaxCalls == 2       \* resolve()/reject() calls made by the producer
MaxLinks == 3       \* then() calls of one chain p.then(a).then(b)...
MaxSettle == 1      \* resolve()/reject() calls made on that chain
MaxNested == 1      \* resolve() calls whose argument is a promise

\* ---------------------------------------------------------------- values
Undefined     == [t |-> "undefined", v |-> 0]
Null          == [t |-> "null", v |-> 0]
Plain(n)      == [t |-> "plain", v |-> n]
Err(n)        == [t |-> "error", v |-> n]
PromiseOf(d)  == [t |-> "promise", v |-> d]

PlainInputs == {42}      \* plain values the producer resolves with
ErrInputs   == {1}       \* errors the producer rejects with
ReturnVals  == {7}       \* plain values a handler returns
ThrowVals   == {2}       \* errors a handler throws

\* ---------------------------------------------------------------- handlers
Handler(k, val, tgt) == [kind |-> k, val |-> val, tgt |-> tgt]
NoHandler            == Handler("none", Undefined, 0)

\* handlers a consumer may pass as the first argument of then
SuccessHandlers ==
    {Handler("return", Plain(r), 0) : r \in ReturnVals}
      \cup {Handler("throw", Err(e), 0) : e \in ThrowVals}
      \cup {Handler("returnPromise", Undefined, 0)}

\* handlers a consumer may pass as the second argument of then;
\* NoHandler stands for an omitted argument
FailureHandlers ==
    {NoHandler}
      \cup {Handler("return", Plain(r), 0) : r \in ReturnVals}
      \cup {Handler("throw", Err(e), 0) : e \in ThrowVals}

\* the pairs (_callback, _errback) a consumer passes to then
HandlerPairs == SuccessHandlers \X FailureHandlers

NoReg == [set |-> FALSE, cb |-> NoHandler, eb |-> NoHandler, next |-> 0]

VARIABLES
    defs,     \* defs[d]: the deferred d, i.e. the closure variables callback/errback
    log,      \* invocations of consumer-supplied handlers, in order
    calls,    \* invocations of deferred.resolve / deferred.reject, in order
    ops       \* the operations performed from outside, in order

\* the coroutine runner of src/unnamed/part_000 (run / toThunk / arrayToThunk)
VARIABLES
    prog,     \* the procedure handed to run and the files its reads find
    gen,      \* the generator object: where the procedure is suspended
    thunks,   \* the thunks started so far, each with its completion callback
    aggs,     \* the aggregates started so far: pending, results, done
    trail     \* what the runner did, in order

promiseVars == <<defs, log, calls, ops>>
runVars     == <<prog, gen, thunks, aggs, trail>>

vars == <<defs, log, calls, ops, prog, gen, thunks, aggs, trail>>

\* no procedure has been handed to run
NoProg   == [steps |-> << >>, files |-> << >>]
NoGen    == [state |-> "created", pc |-> 0, final |-> Undefined]
RunIdle ==
    /\ prog   = NoProg
    /\ gen    = NoGen
    /\ thunks = << >>
    /\ aggs   = << >>
    /\ trail  = << >>

Last(s) == s[Len(s)]

\* ------------------------------------------------------------------------
\* The engine.  Every operator takes the program state S (a record with the
\* fields defs, log, calls and the number `at` of the running operation) and
\* returns the state after the call has returned.

\* defer(): a new deferred with callback and errback still undefined
defer(S, origin) ==
    [S EXCEPT !.defs = Append(@, [origin |-> origin, reg |-> NoReg])]

\* typeof value.then == 'function', for a truthy value
IsThenable(value) == value.t = "promise"

\* function(err) { throw err; }
DefaultErrback == Handler("default", Undefined, 0)

\* then, had it kept a pair that is already registered instead of
\* overwriting it
then_keepFirst(S, d, _callback, _errback, origin) ==
    LET S1           == defer(S, origin)
        nextDeferred == Len(S1.defs)
        eb           == IF _errback = NoHandler THEN DefaultErrback ELSE _errback
    IN  IF S.defs[d].reg.set THEN S1
        ELSE [S1 EXCEPT !.defs[d].reg =
                [set |-> TRUE, cb |-> _callback, eb |-> eb, next |-> nextDeferred]]

\* deferred.promise.then(_callback, _errback): creates nextDeferred and
\* overwrites the callback/errback pair of deferred d
then(S, d, _callback, _errback, origin) ==
    LET S1           == defer(S, origin)
        nextDeferred == Len(S1.defs)
        eb           == IF _errback = NoHandler THEN DefaultErrback ELSE _errback
    IN  [S1 EXCEPT !.defs[d].reg =
            [set |-> TRUE, cb |-> _callback, eb |-> eb, next |-> nextDeferred]]

\* One invocation of a consumer-supplied handler h, registered on deferred d
\* by the then call that created deferred n.  The outcome is recorded in the
\* log: thrown tells whether the handler threw, ret is what it returned or
\* threw.  A "returnPromise" handler creates a deferred (as readFile does)
\* and returns its promise.
invoke(S, d, n, side, h, arg) ==
    LET S1  == IF h.kind = "returnPromise" THEN defer(S, "handler") ELSE S
        ret == CASE h.kind = "return"        -> h.val
                 [] h.kind = "throw"         -> h.val
                 [] h.kind = "returnPromise" -> PromiseOf(Len(S1.defs))
                 [] OTHER                    -> Undefined
    IN  [S1 EXCEPT !.log = Append(@,
            [reg |-> n, on |-> d, side |-> side, arg |-> arg, at |-> S.at,
             thrown |-> (h.kind = "throw"), ret |-> ret])]

RECURSIVE resolve(_, _, _, _), reject(_, _, _, _), callback(_, _, _, _),
          errback(_, _, _, _), Resolve(_, _, _)

\* mutant: resolve leaves the call of callback to a later turn
resolve_later(S, d, res, ext) ==
    LET reg == S.defs[d].reg
    IN  [S EXCEPT !.calls = Append(@,
            [d |-> d, m |-> "resolve", arg |-> res, at |-> S.at,
             ext |-> ext, notified |-> reg.set])]
\* resolve: function(res) { if (callback) callback(res); }
resolve(S, d, res, ext) ==
    LET reg == S.defs[d].reg
        S1  == [S EXCEPT !.calls = Append(@,
                   [d |-> d, m |-> "resolve", arg |-> res, at |-> S.at,
                    ext |-> ext, notified |-> reg.set])]
    IN  IF reg.set THEN callback(S1, d, reg, res) ELSE S1

\* reject: function(err) { if (errback) errback(err); }
reject(S, d, err, ext) ==
    LET reg == S.defs[d].reg
        S1  == [S EXCEPT !.calls = Append(@,
                   [d |-> d, m |-> "reject", arg |-> err, at |-> S.at,
                    ext |-> ext, notified |-> reg.set])]
    IN  IF reg.set THEN errback(S1, d, reg, err) ELSE S1

\* callback, had its catch block returned without rejecting nextDeferred
callback_swallow(S, d, reg, _res) ==
    IF reg.cb.kind = "fwdResolve"
    THEN Resolve(resolve(S, reg.cb.tgt, _res, FALSE), reg.next, Undefined)
    ELSE LET S1  == invoke(S, d, reg.next, "callback", reg.cb, _res)
             out == Last(S1.log)
         IN  IF out.thrown
             THEN S1
             ELSE Resolve(S1, reg.next, out.ret)

\* callback = function(_res) { try { res = _callback(_res); }
\*   catch (err) { nextDeferred.reject(err); return; }
\*   Resolve(nextDeferred, res); }
callback(S, d, reg, _res) ==
    IF reg.cb.kind = "fwdResolve"
    THEN \* _callback is function(res) { deferred.resolve(res); } of Resolve
         Resolve(resolve(S, reg.cb.tgt, _res, FALSE), reg.next, Undefined)
    ELSE LET S1  == invoke(S, d, reg.next, "callback", reg.cb, _res)
             out == Last(S1.log)
         IN  IF out.thrown
             THEN reject(S1, reg.next, out.ret, FALSE)
             ELSE Resolve(S1, reg.next, out.ret)

\* errback, had the default failure handler returned instead of rethrowing
errback_noRethrow(S, d, reg, _err) ==
    CASE reg.eb.kind = "default" -> S
      [] reg.eb.kind = "fwdReject" -> reject(S, reg.eb.tgt, _err, FALSE)
      [] OTHER ->
           LET S1  == invoke(S, d, reg.next, "errback", reg.eb, _err)
               out == Last(S1.log)
           IN  IF out.thrown
               THEN reject(S1, reg.next, out.ret, FALSE)
               ELSE S1

\* errback = function(_err) { try { _errback(_err); }
\*   catch (err) { nextDeferred.reject(err); } }
errback(S, d, reg, _err) ==
    CASE reg.eb.kind = "default" ->
           \* function(err) { throw err; }
           reject(S, reg.next, _err, FALSE)
      [] reg.eb.kind = "fwdReject" ->
           \* function(err) { deferred.reject(err); } of Resolve
           reject(S, reg.eb.tgt, _err, FALSE)
      [] OTHER ->
           LET S1  == invoke(S, d, reg.next, "errback", reg.eb, _err)
               out == Last(S1.log)
           IN  IF out.thrown
               THEN reject(S1, reg.next, out.ret, FALSE)
               ELSE S1

\* Resolve, had it lacked the branch that adopts a promise-like value
Resolve_noAdopt(S, deferred, value) ==
    resolve(S, deferred, Null, FALSE)

\* function Resolve(deferred, value)
Resolve(S, deferred, value) ==
    IF IsThenable(value)
    THEN then(S, value.v, Handler("fwdResolve", Undefined, deferred),
                          Handler("fwdReject", Undefined, deferred), "adopt")
    ELSE \* deferred.resolve(null, value): resolve takes one parameter
         resolve(S, deferred, Null, FALSE)

\* ------------------------------------------------------------------------
\* The operations performed from outside.

Cur == [defs |-> defs, log |-> log, calls |-> calls, at |-> Len(ops) + 1]

Commit(S, op) ==
    /\ defs'  = S.defs
    /\ log'   = S.log
    /\ calls' = S.calls
    /\ ops'   = Append(ops, op)
    /\ UNCHANGED runVars

Count(kind) == Cardinality({i \in 1..Len(ops) : ops[i].op = kind})

Deferreds == 1..Len(defs)

\* deferreds whose resolve/reject the producer holds
Owned == {d \in Deferreds : defs[d].origin \in {"defer", "handler"}}

\* deferreds whose promise a consumer holds
Chainable == {d \in Deferreds : defs[d].origin \in {"defer", "then"}}

\* an operation on deferred d: the argument of resolve/reject, or the two
\* handlers passed to then and the deferred `next` that this then created
Op(kind, d, arg, cb, eb, next) ==
    [op |-> kind, d |-> d, arg |-> arg, cb |-> cb, eb |-> eb, next |-> next]

\* var deferred = defer();
Init ==
    /\ defs  = << [origin |-> "defer", reg |-> NoReg] >>
    /\ log   = << >>
    /\ calls = << >>
    /\ ops   = << >>
    /\ RunIdle

\* deferred.promise.then(_callback, _errback)
Then ==
    /\ Count("then") < MaxThen
    /\ \E d \in Chainable, hp \in HandlerPairs :
          Commit(then(Cur, d, hp[1], hp[2], "then"),
                 Op("then", d, Undefined, hp[1], hp[2], Len(defs) + 1))

\* deferred.resolve(res) with a plain value
ResolveCall ==
    /\ Count("resolve") + Count("reject") < MaxCalls
    /\ \E d \in Owned, v \in PlainInputs :
          Commit(resolve(Cur, d, Plain(v), TRUE),
                 Op("resolve", d, Plain(v), NoHandler, NoHandler, 0))

\* var p1 = defer(); deferred.resolve(p1.promise): the producer resolves
\* with the promise of another deferred it has just created
ResolveWithPromise ==
    /\ Count("resolve") + Count("reject") < MaxCalls
    /\ Cardinality({i \in 1..Len(ops) : IsThenable(ops[i].arg)}) < MaxNested
    /\ \E d \in Owned :
          LET S1 == defer(Cur, "defer")
              p1 == PromiseOf(Len(S1.defs))
          IN  Commit(resolve(S1, d, p1, TRUE),
                     Op("resolve", d, p1, NoHandler, NoHandler, 0))

\* deferred.reject(err)
RejectCall ==
    /\ Count("resolve") + Count("reject") < MaxCalls
    /\ \E d \in Owned, e \in ErrInputs :
          Commit(reject(Cur, d, Err(e), TRUE), Op("reject", d, Err(e), NoHandler, NoHandler, 0))

\* consumers chain on any promise they hold, the producer settles with plain
\* values and errors
Next == Then \/ ResolveCall \/ RejectCall

Spec == Init /\ [][Next]_vars

\* the same, with a producer that also resolves with promises
NextNested == Then \/ ResolveCall \/ RejectCall \/ ResolveWithPromise

SpecNested == Init /\ [][NextNested]_vars

\* ------------------------------------------------------------------------
\* One chain: p.then(a).then(b).then(c)..., every then called on the promise
\* the previous then returned, settlements arriving at any moment.

ThenOps == {i \in 1..Len(ops) : ops[i].op = "then"}

\* the deferred whose promise the last then of the chain returned
ChainTail == IF ThenOps = {} THEN 1
        ELSE ops[CHOOSE i \in ThenOps : \A j \in ThenOps : j <= i].next

ThenChain ==
    /\ Count("then") < MaxLinks
    /\ \E hp \in HandlerPairs :
          Commit(then(Cur, ChainTail, hp[1], hp[2], "then"),
                 Op("then", ChainTail, Undefined, hp[1], hp[2], Len(defs) + 1))

\* resolve/reject on the head of the chain or on a deferred a handler created
SettleChain ==
    /\ Count("resolve") + Count("reject") < MaxSettle
    /\ \E d \in Owned :
          \/ \E v \in PlainInputs :
                Commit(resolve(Cur, d, Plain(v), TRUE),
                       Op("resolve", d, Plain(v), NoHandler, NoHandler, 0))
          \/ \E e \in ErrInputs :
                Commit(reject(Cur, d, Err(e), TRUE),
                       Op("reject", d, Err(e), NoHandler, NoHandler, 0))

NextChain == ThenChain \/ SettleChain

SpecChain == Init /\ [][NextChain]_vars

\* ------------------------------------------------------------------------
\* Reading the histories.

OpIdx   == 1..Len(ops)
LogIdx  == 1..Len(log)
CallIdx == 1..Len(calls)

IsSettleOp(s) == ops[s].op \in {"resolve", "reject"}

\* the then calls made on the promise of deferred x before operation s
ThensOn(x, s) == {j \in 1..(s - 1) : ops[j].op = "then" /\ ops[j].d = x}

\* the then call whose handlers are registered on x when operation s starts
LastThenOn(x, s) == CHOOSE j \in ThensOn(x, s) : \A k \in ThensOn(x, s) : k <= j

\* resolve/reject was called from outside on x before operation s
SettledBefore(x, s) == \E t \in 1..(s - 1) : IsSettleOp(t) /\ ops[t].d = x

\* invocations, during operation s, of the handlers registered by the then
\* call that created deferred n
Invocations(n, side, s) ==
    {i \in LogIdx : log[i].reg = n /\ log[i].side = side /\ log[i].at = s}

\* i, j, k are the then calls of a chain p.then(a).then(b).then(c), and
\* these are the handlers in force when operation s starts
IsChain3(i, j, k, s) ==
    /\ ThensOn(ops[i].d, s) # {} /\ i = LastThenOn(ops[i].d, s)
    /\ ThensOn(ops[i].next, s) # {} /\ j = LastThenOn(ops[i].next, s)
    /\ ThensOn(ops[j].next, s) # {} /\ k = LastThenOn(ops[j].next, s)

\* ------------------------------------------------------------------------
\* C1: for a chain p.then(a).then(b).then(c) built before p is settled, with
\* handlers returning plain values, resolve(v) on p invokes a, then b, then
\* c, each exactly once; a receives v, b what a returned, c what b returned.
C1_ChainOrder ==
    \A s \in OpIdx : \A i \in OpIdx, j \in OpIdx, k \in OpIdx :
        ( /\ ops[s].op = "resolve"
          /\ IsChain3(i, j, k, s)
          /\ ops[s].d = ops[i].d
          /\ ~SettledBefore(ops[s].d, s)
          /\ \A t \in {i, j, k} : ops[t].cb.kind = "return" )
        => LET ns == {ops[i].next, ops[j].next, ops[k].next}
               E  == SelectSeq(log, LAMBDA e : e.at = s /\ e.reg \in ns)
           IN  /\ Len(E) = 3
               /\ \A t \in 1..3 : E[t].side = "callback"
               /\ E[1].reg = ops[i].next /\ E[1].arg = ops[s].arg
               /\ E[2].reg = ops[j].next /\ E[2].arg = E[1].ret
               /\ E[3].reg = ops[k].next /\ E[3].arg = E[2].ret

\* ------------------------------------------------------------------------
\* C2: when a success handler registered by then returns a plain value r, the
\* promise that then returned is fulfilled with r: the success handler
\* registered on it is invoked with r.
C2_PlainResult ==
    \A i \in LogIdx :
        ( /\ log[i].side = "callback"
          /\ ~log[i].thrown
          /\ ~IsThenable(log[i].ret)
          /\ ThensOn(log[i].reg, log[i].at) # {} )
        => \E m \in Invocations(ops[LastThenOn(log[i].reg, log[i].at)].next,
                                "callback", log[i].at) :
               log[m].arg = log[i].ret

\* ------------------------------------------------------------------------
\* C3: when a success handler registered by then returns a promise r, the
\* promise that then returned (deferred n) is not settled when the handler
\* returns; every later resolve(v) of r is forwarded as n.resolve(v) and
\* reaches the success handler registered on n, every later reject(e) of r is
\* forwarded as n.reject(e) and reaches the failure handler registered on n;
\* the handlers registered on n are never invoked with r itself.
C3_Adoption ==
    \A i \in LogIdx :
        (log[i].side = "callback" /\ ~log[i].thrown /\ IsThenable(log[i].ret))
        => LET n == log[i].reg
               r == log[i].ret.v
           IN  /\ \A c \in CallIdx : ~(calls[c].d = n /\ calls[c].at = log[i].at)
               /\ \A m \in LogIdx : log[m].on = n => log[m].arg # log[i].ret
               /\ \A c \in CallIdx : calls[c].d = r =>
                    LET s == calls[c].at
                    IN  /\ \E c2 \in CallIdx :
                              /\ c2 > c
                              /\ calls[c2].d = n
                              /\ calls[c2].m = calls[c].m
                              /\ calls[c2].arg = calls[c].arg
                              /\ calls[c2].at = s
                        /\ ThensOn(n, s) # {} =>
                              LET dn == ops[LastThenOn(n, s)]
                              IN  IF calls[c].m = "resolve"
                                  THEN /\ \E m \in Invocations(dn.next, "callback", s) :
                                             log[m].arg = calls[c].arg
                                       /\ Invocations(dn.next, "errback", s) = {}
                                  ELSE /\ Invocations(dn.next, "callback", s) = {}
                                       /\ dn.eb # NoHandler =>
                                             \E m \in Invocations(dn.next, "errback", s) :
                                                 log[m].arg = calls[c].arg

\* a handler returned a promise r, r was later resolved with a plain value
\* and the success handler registered downstream received that value
C3_Witness ==
    \E i \in LogIdx, c \in CallIdx, m \in LogIdx :
        /\ log[i].side = "callback" /\ IsThenable(log[i].ret)
        /\ calls[c].d = log[i].ret.v /\ calls[c].m = "resolve" /\ calls[c].ext
        /\ calls[c].at > log[i].at
        /\ log[m].on = log[i].reg /\ log[m].side = "callback"
        /\ log[m].at = calls[c].at /\ log[m].arg = calls[c].arg

\* ------------------------------------------------------------------------
\* C4: a consumer's success handler never receives a promise: resolving a
\* deferred with a promise P1 delivers the value P1 (transitively) settles
\* with, never P1 itself.
C4_TransitiveAdoption ==
    \A i \in LogIdx : log[i].side = "callback" => ~IsThenable(log[i].arg)

\* ------------------------------------------------------------------------
\* C5: when the success or the failure handler registered by p.then throws
\* e, the promise that then returned (deferred n) is rejected with e and is
\* not fulfilled: the failure handler registered on n receives e, the
\* success handler registered on n is not invoked, and the other handler of
\* the pair that threw is not invoked.
C5_HandlerThrow ==
    \A i \in LogIdx :
        log[i].thrown
        => LET n     == log[i].reg
               s     == log[i].at
               e     == log[i].ret
               other == IF log[i].side = "callback" THEN "errback" ELSE "callback"
           IN  /\ \E c \in CallIdx :
                     /\ calls[c].d = n /\ calls[c].m = "reject"
                     /\ calls[c].arg = e /\ calls[c].at = s
               /\ \A c \in CallIdx :
                     (calls[c].d = n /\ calls[c].at = s) => calls[c].m = "reject"
               /\ Invocations(n, other, s) = {}
               /\ ThensOn(n, s) # {} =>
                     LET dn == ops[LastThenOn(n, s)]
                     IN  /\ Invocations(dn.next, "callback", s) = {}
                         /\ dn.eb # NoHandler =>
                               \E m \in Invocations(dn.next, "errback", s) :
                                   log[m].arg = e

\* a success handler threw and a failure handler threw, and each time the
\* failure handler registered on the next promise received the error
C5_Witness ==
    \A side \in {"callback", "errback"} :
        \E i \in LogIdx, m \in LogIdx :
            /\ log[i].thrown /\ log[i].side = side
            /\ log[m].on = log[i].reg /\ log[m].side = "errback"
            /\ log[m].at = log[i].at /\ log[m].arg = log[i].ret

\* ------------------------------------------------------------------------
\* C6: when an explicit failure handler returns normally with a plain value
\* r, the promise that then returned is fulfilled with r: the success handler
\* registered on it is invoked with r.
C6_Recovery ==
    \A i \in LogIdx :
        ( /\ log[i].side = "errback"
          /\ ~log[i].thrown
          /\ ThensOn(log[i].reg, log[i].at) # {} )
        => \E m \in Invocations(ops[LastThenOn(log[i].reg, log[i].at)].next,
                                "callback", log[i].at) :
               log[m].arg = log[i].ret

\* ------------------------------------------------------------------------
\* The links an error passes when it enters the chain at deferred x during
\* operation s: the then calls in force from x downwards, up to and
\* including the first one with an explicit failure handler.  A deferred
\* created by a handler forwards to the deferred that adopted its promise.
RECURSIVE ErrorPath(_, _)
ErrorPath(x, s) ==
    IF defs[x].origin = "handler"
    THEN IF defs[x].reg.set THEN ErrorPath(defs[x].reg.eb.tgt, s) ELSE << >>
    ELSE IF ThensOn(x, s) = {} THEN << >>
    ELSE LET j == LastThenOn(x, s)
         IN  IF ops[j].eb # NoHandler THEN << j >>
             ELSE << j >> \o ErrorPath(ops[j].next, s)

\* error e, entering at x during operation s, invoked no success handler on
\* its way and was handed unchanged, once, to the first explicit failure handler
Delivered(x, e, s) ==
    LET P == ErrorPath(x, s)
    IN  /\ \A t \in 1..Len(P) : Invocations(ops[P[t]].next, "callback", s) = {}
        /\ (Len(P) > 0 /\ ops[P[Len(P)]].eb # NoHandler) =>
              /\ Cardinality(Invocations(ops[P[Len(P)]].next, "errback", s)) = 1
              /\ \A m \in Invocations(ops[P[Len(P)]].next, "errback", s) :
                    log[m].arg = e

\* C7: an error entering a chain by reject(e) or by a success handler
\* throwing e passes every then link registered without a failure handler,
\* invoking none of their success handlers, and is delivered unchanged to the
\* first explicit failure handler further down the chain.
C7_PassThrough ==
    /\ \A c \in CallIdx :
          (calls[c].ext /\ calls[c].m = "reject")
          => Delivered(calls[c].d, calls[c].arg, calls[c].at)
    /\ \A i \in LogIdx :
          (log[i].side = "callback" /\ log[i].thrown)
          => Delivered(log[i].reg, log[i].ret, log[i].at)

\* reject(e) on the head passed two links without a failure handler and
\* reached the explicit failure handler of the third
C7_Witness ==
    \E c \in CallIdx :
        /\ calls[c].ext /\ calls[c].m = "reject"
        /\ LET P == ErrorPath(calls[c].d, calls[c].at)
           IN  /\ Len(P) >= 3
               /\ ops[P[Len(P)]].eb # NoHandler
               /\ \E m \in Invocations(ops[P[Len(P)]].next, "errback", calls[c].at) :
                     log[m].arg = calls[c].arg

\* ------------------------------------------------------------------------
\* operation s is the first resolve(v) on a deferred the producer created
FirstResolve(s) ==
    /\ ops[s].op = "resolve"
    /\ defs[ops[s].d].origin = "defer"
    /\ ~SettledBefore(ops[s].d, s)

\* C8 as stated: resolve(v) on a fresh deferred invokes the success handler
\* of every then call made on its promise before, exactly once, with v, and
\* no failure handler of any of them.
C8_EveryRegistration ==
    \A s \in OpIdx :
        FirstResolve(s)
        => \A j \in ThensOn(ops[s].d, s) :
              /\ Cardinality(Invocations(ops[j].next, "callback", s)) = 1
              /\ \A m \in Invocations(ops[j].next, "callback", s) :
                    log[m].arg = ops[s].arg
              /\ Invocations(ops[j].next, "errback", s) = {}

\* C8 as amended: resolve(v) on a fresh deferred invokes the success handler
\* of the most recent then call made on its promise before, exactly once,
\* with v; it invokes no handler of an earlier then call and no failure
\* handler of any of them.
C8_LastRegistration ==
    \A s \in OpIdx :
        (FirstResolve(s) /\ ThensOn(ops[s].d, s) # {})
        => LET last == LastThenOn(ops[s].d, s)
           IN  /\ Cardinality(Invocations(ops[last].next, "callback", s)) = 1
               /\ \A m \in Invocations(ops[last].next, "callback", s) :
                     log[m].arg = ops[s].arg
               /\ \A j \in ThensOn(ops[s].d, s) :
                     /\ Invocations(ops[j].next, "errback", s) = {}
                     /\ j # last => Invocations(ops[j].next, "callback", s) = {}

\* two then calls were made on a fresh deferred's promise, the deferred was
\* resolved, and the handler of the second then call ran
C8_Witness ==
    \E s \in OpIdx :
        /\ FirstResolve(s)
        /\ Cardinality(ThensOn(ops[s].d, s)) >= 2
        /\ Invocations(ops[LastThenOn(ops[s].d, s)].next, "callback", s) # {}

\* ------------------------------------------------------------------------
\* C9: a then call on a promise whose deferred was settled before any then
\* was called on it invokes the matching handler during that then call.
C9_LateRegistration ==
    \A j \in OpIdx :
        (ops[j].op = "then" /\ ThensOn(ops[j].d, j) = {})
        => \A t \in 1..(j - 1) :
              ( /\ IsSettleOp(t) /\ ops[t].d = ops[j].d
                /\ \A u \in 1..(j - 1) : (IsSettleOp(u) /\ ops[u].d = ops[j].d) => u = t )
              => IF ops[t].op = "resolve"
                 THEN \E m \in Invocations(ops[j].next, "callback", j) :
                          log[m].arg = ops[t].arg
                 ELSE ops[j].eb # NoHandler =>
                          \E m \in Invocations(ops[j].next, "errback", j) :
                              log[m].arg = ops[t].arg

\* ------------------------------------------------------------------------
\* C10: whatever resolve and reject calls are made on a deferred, the
\* handlers of a then call made on its promise are invoked at most once in
\* total.
C10_SettleOnce ==
    \A j \in OpIdx :
        (ops[j].op = "then" /\ defs[ops[j].d].origin = "defer")
        => Cardinality({i \in LogIdx : log[i].reg = ops[j].next}) <= 1

\* ------------------------------------------------------------------------
\* reject call c found errback undefined and returned without doing anything
\* (if (errback) ... at line 908): the error it carried is lost
DroppedSilently(c) == calls[c].m = "reject" /\ ~calls[c].notified

\* C17: an error that enters a then chain by reject(e) and passes every link
\* without meeting an explicit failure handler is not dropped silently at
\* the last promise of the chain (it leaves the triggering call as a thrown
\* error instead).
C17_TerminalRejection ==
    \A c \in CallIdx :
        ( /\ calls[c].ext /\ calls[c].m = "reject"
          /\ LET P == ErrorPath(calls[c].d, calls[c].at)
             IN  Len(P) > 0 /\ ops[P[Len(P)]].eb = NoHandler )
        => ~\E c2 \in CallIdx :
               /\ calls[c2].at = calls[c].at
               /\ calls[c2].arg = calls[c].arg
               /\ DroppedSilently(c2)

\* ========================================================================
\* The coroutine runner: src/unnamed/part_000, lines 365-413
\* ========================================================================

\* ---------------------------------------------------------------- bounds
MaxYields  == 3     \* yields of a procedure of raw thunks
MaxMembers == 2     \* members of a yielded collection
MaxTail    == 2     \* yields that follow the yielded collection
MaxPad     == 1     \* whitespace characters around a file name in a clue

\* ---------------------------------------------------------------- values
\* a string is the sequence of its characters, an array that of its elements
Str(s) == [t |-> "string", v |-> s]
Arr(s) == [t |-> "array", v |-> s]

Whitespace == {" ", "\n"}

RECURSIVE trimStart(_)
trimStart(s) ==
    IF s # << >> /\ Head(s) \in Whitespace THEN trimStart(Tail(s)) ELSE s

RECURSIVE trimEnd(_)
trimEnd(s) ==
    IF s # << >> /\ Last(s) \in Whitespace
    THEN trimEnd(SubSeq(s, 1, Len(s) - 1))
    ELSE s

\* mutant: trim leaves the string as it is
trim_identity(s) == s
\* clue1.trim(): the string without its leading and trailing whitespace
trim(s) == trimEnd(trimStart(s))

\* if (err): every value but null and undefined counts as an error here
Truthy(x) == x.t \notin {"null", "undefined"}

\* the errors the runtime raises
NotAFunction == Err(101)    \* TypeError: thunk is not a function
NotAString   == Err(102)    \* TypeError: cannot read property 'trim'
NotThunkable == Err(103)    \* Error: We are only thunking arrays and functions
NoSuchFile   == Err(104)    \* ENOENT from fs.readFile
NoExc        == [t |-> "none", v |-> 0]

\* ---------------------------------------------------------------- work items
\* A thunk is described by what it does when it is called with a callback:
\*   "async"    starts an operation whose outcome arrives later,
\*   "syncFail" calls the callback with an error before it returns,
\*   "read"     is read(file): the outcome is what fs.readFile finds.
Thunk(mode, file)   == [kind |-> "thunk", mode |-> mode, file |-> file, members |-> << >>]
Collection(members) == [kind |-> "array", mode |-> "", file |-> << >>, members |-> members]
read(file)          == Thunk("read", file)

\* One statement of the procedure:
\*     x = yield <item>                    (expr = "item")
\*     x = yield read(x.trim())            (expr = "readTrimmed")
\* wrapped in try { } catch (e) { } when catches is TRUE.
Step(expr, item, catches) == [expr |-> expr, item |-> item, catches |-> catches]

\* the value of the yield expression of statement k, x being the value the
\* procedure received last
Yielded(P, k, x) ==
    IF P.steps[k].expr = "readTrimmed" THEN read(trim(x.v)) ELSE P.steps[k].item

\* fs.readFile(file, 'utf8', callback): what the callback will be given
readFile(P, file) ==
    IF \E f \in P.files : f.name = file
    THEN [err |-> Null, res |-> Str((CHOOSE f \in P.files : f.name = file).content)]
    ELSE [err |-> NoSuchFile, res |-> Undefined]

\* ---------------------------------------------------------------- trail
\* One thing the runner did.  e is what happened, src the trail position of
\* the completion callback that did it (0: run itself), id the thunk or the
\* aggregate concerned, pc/to the procedure's statement before and after a
\* resumption (to = 0: the procedure has finished), ran whether the
\* resumption executed any of the procedure's code.
Ev(e, src, id, err, val, pc, to, ran) ==
    [e |-> e, src |-> src, id |-> id, err |-> err, val |-> val,
     pc |-> pc, to |-> to, ran |-> ran]

\* the state the runner's functions work on, with the exception in flight
\* (exc) and the value of the last gen.next / gen.throw (ret)
Record(S, ev) == [S EXCEPT !.trail = Append(@, ev)]
NoRet == [done |-> TRUE, value |-> Undefined]

\* ---------------------------------------------------------------- generator
\* The procedure resumed at statement k + 1 after statement k is over: it
\* runs to its next yield, or to its end.
advance(S, k, x) ==
    IF k = Len(S.prog.steps)
    THEN [S EXCEPT !.gen = [state |-> "completed", pc |-> k, final |-> x],
                   !.ret = NoRet]
    ELSE IF S.prog.steps[k + 1].expr = "readTrimmed" /\ x.t # "string"
    THEN [S EXCEPT !.gen = [state |-> "failed", pc |-> k, final |-> x],
                   !.ret = NoRet, !.exc = NotAString]
    ELSE [S EXCEPT !.gen = [state |-> "suspended", pc |-> k + 1, final |-> x],
                   !.ret = [done |-> FALSE, value |-> Yielded(S.prog, k + 1, x)]]

Resumable(S) == S.gen.state \in {"created", "suspended"}
After(S)     == IF S.gen.state = "suspended" THEN S.gen.pc ELSE 0

\* statement; statement: x is evaluated, once, and F goes on from its value
Bind(x, F(_)) == CHOOSE r \in {F(y) : y \in {x}} : TRUE

\* mutant: gen.next on a generator that is over hands out the item of the
\* procedure's last yield once more
genNext_yieldAgain(S, incoming, src) ==
    LET n == Len(S.prog.steps)
        T == IF Resumable(S)
             THEN advance(S, S.gen.pc, IF S.gen.state = "created" THEN Undefined ELSE incoming)
             ELSE [S EXCEPT !.ret = [done |-> FALSE,
                                     value |-> Yielded(S.prog, n, S.gen.final)]]
    IN  Record(T, Ev("next", src, 0, Null, incoming, S.gen.pc, After(T), TRUE))
\* gen.next(incoming), called by the completion callback at trail position src
genNext(S, incoming, src) ==
    LET T == IF Resumable(S)
             THEN advance(S, S.gen.pc, IF S.gen.state = "created" THEN Undefined ELSE incoming)
             ELSE [S EXCEPT !.ret = NoRet]
    IN  Record(T, Ev("next", src, 0, Null, incoming, S.gen.pc, After(T), Resumable(S)))

\* mutant: an error the procedure does not catch leaves it suspended
genThrow_staysSuspended(S, err, src) ==
    LET caught == S.gen.state = "suspended" /\ S.prog.steps[S.gen.pc].catches
        T == IF caught
             THEN advance(S, S.gen.pc, S.gen.final)
             ELSE [S EXCEPT !.ret = NoRet, !.exc = err]
    IN  Record(T, Ev("throw", src, 0, err, Undefined, S.gen.pc, After(T), Resumable(S)))
\* gen.throw(err): the error is raised at the yield the procedure is
\* suspended at; a catch around it lets the procedure go on to its next
\* statement, otherwise the error leaves the generator, which is then over
genThrow(S, err, src) ==
    LET caught == S.gen.state = "suspended" /\ S.prog.steps[S.gen.pc].catches
        T == IF caught
             THEN advance(S, S.gen.pc, S.gen.final)
             ELSE [S EXCEPT !.gen = [@ EXCEPT !.state =
                                        IF @ = "completed" THEN "completed" ELSE "failed"],
                            !.ret = NoRet, !.exc = err]
    IN  Record(T, Ev("throw", src, 0, err, Undefined, S.gen.pc, After(T), Resumable(S)))

\* ---------------------------------------------------------------- runner
RECURSIVE next(_, _, _), call(_, _, _), deliver(_, _, _, _),
          arrayResolve(_, _, _), resolveAll(_, _, _)

\* The completion callback created by the call of next that left the
\* procedure suspended at statement k (lines 379-382), and the callback
\* created by resolve(thunk, index) of aggregate a (lines 406-410).
RunCallback(k)       == [k |-> "run", agg |-> 0, index |-> k]
MemberCallback(a, i) == [k |-> "member", agg |-> a, index |-> i]

\* the yield a callback belongs to: the statement whose item it completes
YieldOf(S, cb) == IF cb.k = "run" THEN cb.index ELSE S.aggs[cb.agg].step

\* the function arrayToThunk(arr) returns
arrayToThunk(arr) == [arr EXCEPT !.kind = "aggregate"]

\* toThunk(obj): functions as they are, arrays wrapped, anything else throws
toThunk(obj) ==
    IF obj.kind = "thunk" THEN [exc |-> NoExc, value |-> obj]
    ELSE IF obj.kind = "array" THEN [exc |-> NoExc, value |-> arrayToThunk(obj)]
    ELSE [exc |-> NotThunkable, value |-> obj]

\* mutant: next never calls the thunk it was handed
next_noStart(S, incoming, src) ==
    Bind(genNext(S, incoming, src), LAMBDA S1 :
        LET th == toThunk(S1.ret.value)
        IN  IF S1.exc # NoExc THEN S1
            ELSE IF S1.ret.done THEN S1
            ELSE IF th.exc # NoExc THEN [S1 EXCEPT !.exc = th.exc]
            ELSE S1)
\* next(incoming), lines 375-383
next(S, incoming, src) ==
    Bind(genNext(S, incoming, src), LAMBDA S1 :
        LET th == toThunk(S1.ret.value)
        IN  IF S1.exc # NoExc THEN S1
            ELSE IF S1.ret.done THEN S1
            ELSE IF th.exc # NoExc THEN [S1 EXCEPT !.exc = th.exc]
            ELSE call(Record(S1, Ev("invoke", src, 0, Null, Undefined, S1.gen.pc, 0, FALSE)),
                      th.value, RunCallback(S1.gen.pc)))

\* mutant: the countdown of an aggregate starts one short of arr.length
call_shortCount(S, f, cb) ==
    IF f.kind = "thunk"
    THEN LET id == Len(S.thunks) + 1
             sync == f.mode = "syncFail"
             S1 == [S EXCEPT !.thunks = Append(@,
                        [item |-> f, cb |-> cb, step |-> YieldOf(S, cb),
                         status |-> IF sync THEN "called" ELSE "inflight"])]
         IN  Bind(Record(S1, Ev("start", 0, id, Null, Undefined, YieldOf(S, cb), 0, FALSE)),
                  LAMBDA S2 :
                      IF sync
                      THEN deliver(S2, cb, CHOOSE e \in {Err(n) : n \in ErrInputs} : TRUE,
                                   Undefined)
                      ELSE S2)
    ELSE IF f.kind = "aggregate"
    THEN \* lines 397-403
         LET a == Len(S.aggs) + 1
             n == Len(f.members)
         IN  Bind([S EXCEPT !.aggs = Append(@,
                        [arr |-> f.members, pending |-> n - 1,
                         results |-> [i \in 1..n |-> Undefined],
                         done |-> cb, step |-> YieldOf(S, cb)])],
                  LAMBDA S1 : resolveAll(S1, a, 1))
    ELSE [S EXCEPT !.exc = NotAFunction]
\* f(cb): calling what is expected to be a thunk with a callback
call(S, f, cb) ==
    IF f.kind = "thunk"
    THEN LET id == Len(S.thunks) + 1
             sync == f.mode = "syncFail"
             S1 == [S EXCEPT !.thunks = Append(@,
                        [item |-> f, cb |-> cb, step |-> YieldOf(S, cb),
                         status |-> IF sync THEN "called" ELSE "inflight"])]
         IN  Bind(Record(S1, Ev("start", 0, id, Null, Undefined, YieldOf(S, cb), 0, FALSE)),
                  LAMBDA S2 :
                      IF sync
                      THEN deliver(S2, cb, CHOOSE e \in {Err(n) : n \in ErrInputs} : TRUE,
                                   Undefined)
                      ELSE S2)
    ELSE IF f.kind = "aggregate"
    THEN \* lines 397-403
         LET a == Len(S.aggs) + 1
             n == Len(f.members)
         IN  Bind([S EXCEPT !.aggs = Append(@,
                        [arr |-> f.members, pending |-> n,
                         results |-> [i \in 1..n |-> Undefined],
                         done |-> cb, step |-> YieldOf(S, cb)])],
                  LAMBDA S1 : resolveAll(S1, a, 1))
    ELSE [S EXCEPT !.exc = NotAFunction]

\* for (var i = 0; i < arr.length; i++) resolve(arr[i], i), from member i on
resolveAll(S, a, i) ==
    IF i > Len(S.aggs[a].arr) THEN S
    ELSE Bind(arrayResolve(S, a, i), LAMBDA S1 :
             IF S1.exc # NoExc THEN S1 ELSE resolveAll(S1, a, i + 1))

\* resolve(thunk, index) inside arrayToThunk, lines 405-411
arrayResolve(S, a, i) == call(S, S.aggs[a].arr[i], MemberCallback(a, i))

\* mutant: the aggregate stores each result at the next free position, in
\* the order the members complete
deliver_completionOrder(S, cb, err, res) ==
    IF cb.k = "run"
    THEN Bind(Record(S, Ev("cb", 0, cb.index, err, res, S.gen.pc, 0, FALSE)), LAMBDA S0 :
             LET c == Len(S0.trail)
             IN  IF Truthy(err)
                 THEN Bind(genThrow(S0, err, c), LAMBDA S1 :
                          IF S1.exc # NoExc THEN S1 ELSE next(S1, res, c))
                 ELSE next(S0, res, c))
    ELSE LET a  == cb.agg
             at == Len(S.aggs[a].arr) - S.aggs[a].pending + 1
         IN  IF Truthy(err)
             THEN deliver(S, S.aggs[a].done, err, Undefined)
             ELSE Bind([S EXCEPT !.aggs[a].results[at] = res,
                                 !.aggs[a].pending = @ - 1], LAMBDA S1 :
                      IF S1.aggs[a].pending = 0
                      THEN deliver(S1, S1.aggs[a].done, Null, Arr(S1.aggs[a].results))
                      ELSE S1)
\* mutant: a member's error is not passed on to done
deliver_swallowError(S, cb, err, res) ==
    IF cb.k = "run"
    THEN \* function(err, result) { if (err) gen.throw(err); next(result); }
         Bind(Record(S, Ev("cb", 0, cb.index, err, res, S.gen.pc, 0, FALSE)), LAMBDA S0 :
             LET c == Len(S0.trail)
             IN  IF Truthy(err)
                 THEN Bind(genThrow(S0, err, c), LAMBDA S1 :
                          IF S1.exc # NoExc THEN S1 ELSE next(S1, res, c))
                 ELSE next(S0, res, c))
    ELSE
         LET a == cb.agg
         IN  IF Truthy(err)
             THEN S
             ELSE Bind([S EXCEPT !.aggs[a].results[cb.index] = res,
                                 !.aggs[a].pending = @ - 1], LAMBDA S1 :
                      IF S1.aggs[a].pending = 0
                      THEN deliver(S1, S1.aggs[a].done, Null, Arr(S1.aggs[a].results))
                      ELSE S1)
\* the callback cb called with (err, res)
deliver(S, cb, err, res) ==
    IF cb.k = "run"
    THEN \* function(err, result) { if (err) gen.throw(err); next(result); }
         Bind(Record(S, Ev("cb", 0, cb.index, err, res, S.gen.pc, 0, FALSE)), LAMBDA S0 :
             LET c == Len(S0.trail)
             IN  IF Truthy(err)
                 THEN Bind(genThrow(S0, err, c), LAMBDA S1 :
                          IF S1.exc # NoExc THEN S1 ELSE next(S1, res, c))
                 ELSE next(S0, res, c))
    ELSE \* function(err, res) { if (err) return done(err); ... }
         LET a == cb.agg
         IN  IF Truthy(err)
             THEN deliver(S, S.aggs[a].done, err, Undefined)
             ELSE Bind([S EXCEPT !.aggs[a].results[cb.index] = res,
                                 !.aggs[a].pending = @ - 1], LAMBDA S1 :
                      IF S1.aggs[a].pending = 0
                      THEN deliver(S1, S1.aggs[a].done, Null, Arr(S1.aggs[a].results))
                      ELSE S1)

\* run(genFn), lines 371-374: var gen = genFn(); next();
run(S) == next(S, Undefined, 0)

\* ---------------------------------------------------------------- actions
Start(P) == [prog |-> P, gen |-> NoGen, thunks |-> thunks, aggs |-> aggs,
             trail |-> trail, exc |-> NoExc, ret |-> NoRet]
Now      == Start(prog)

\* An exception that leaves the outermost call reaches whoever made that
\* call: the caller of run, or the event loop that delivered a completion.
Escaped(S) ==
    IF S.exc # NoExc
    THEN Record(S, Ev("escape", 0, 0, S.exc, Undefined, S.gen.pc, 0, FALSE))
    ELSE S

Settle(S) ==
    \E T \in {Escaped(S)} :
        /\ prog' = T.prog
        /\ gen' = T.gen
        /\ thunks' = T.thunks
        /\ aggs' = T.aggs
        /\ trail' = T.trail
        /\ UNCHANGED promiseVars

\* run(procedure) is called, once
Run(P) ==
    /\ prog = NoProg
    /\ Settle(run(Record(Start(P), Ev("run", 0, 0, Null, Undefined, 0, 0, FALSE))))

InFlight == {id \in 1..Len(thunks) : thunks[id].status = "inflight"}

\* what the operation started by thunk id may report
Outcomes(id) ==
    IF thunks[id].item.mode = "read"
    THEN {readFile(prog, thunks[id].item.file)}
    ELSE {[err |-> Null, res |-> Plain(id)]}
           \cup {[err |-> Err(n), res |-> Undefined] : n \in ErrInputs}

\* the operation started by an asynchronous thunk completes: its callback is
\* called, once
Complete ==
    \E id \in InFlight : \E o \in Outcomes(id) :
        \E S1 \in {Record([Now EXCEPT !.gen = gen, !.thunks[id].status = "called"],
                          Ev("complete", 0, id, o.err, o.res, gen.pc, 0, FALSE))} :
            Settle(deliver(S1, thunks[id].cb, o.err, o.res))

\* ---------------------------------------------------------------- inputs
RECURSIVE SeqsUpTo(_, _)
SeqsUpTo(S, n) ==
    IF n = 0 THEN {<< >>}
    ELSE LET R == SeqsUpTo(S, n - 1)
         IN  R \cup {Append(r, x) : r \in {q \in R : Len(q) = n - 1}, x \in S}

Procedure(steps, files) == [steps |-> steps, files |-> files]

RawThunks == {Thunk("async", << >>), Thunk("syncFail", << >>)}
RawSteps  == {Step("item", t, c) : t \in RawThunks, c \in BOOLEAN}

\* procedures that yield raw thunks only
RawProcedures == {Procedure(s, {}) : s \in SeqsUpTo(RawSteps, MaxYields) \ {<< >>}}

RunRaw == \E P \in RawProcedures : Run(P)

NextRun == RunRaw \/ Complete
SpecRun == Init /\ [][NextRun]_vars

\* the event loop delivers the completion of every operation that is under
\* way
SpecRunFair == SpecRun /\ WF_vars(Complete)

\* procedures whose first yield is a collection; its members are thunks or,
\* nested, collections themselves
FanMembers == RawThunks \cup {Collection(<<Thunk("async", << >>)>>)}
TailSteps  == {Step("item", Thunk("async", << >>), c) : c \in BOOLEAN}
FanProcedures ==
    {Procedure(<<Step("item", Collection(m), c)>> \o tl, {}) :
        m \in SeqsUpTo(FanMembers, MaxMembers), c \in BOOLEAN,
        tl \in SeqsUpTo(TailSteps, MaxTail)}

RunFan == \E P \in FanProcedures : Run(P)

NextFan == RunFan \/ Complete
SpecFan == Init /\ [][NextFan]_vars

\* the treasure hunt of lines 129-134: each clue file holds the name of the
\* next file, with whitespace around it; the last file holds the payload
HuntNames == << <<"c", "1">>, <<"c", "2">>, <<"t">> >>
Payload   == <<"$", "$", "$">>
Paddings  == SeqsUpTo(Whitespace, MaxPad)

HuntSteps ==
    << Step("item", read(HuntNames[1]), FALSE),
       Step("readTrimmed", read(<< >>), FALSE),
       Step("readTrimmed", read(<< >>), FALSE) >>

\* the files of a hunt; hidden: whether the last file is missing
HuntFiles(p1, q1, p2, q2, hidden) ==
    {[name |-> HuntNames[1], content |-> p1 \o HuntNames[2] \o q1],
     [name |-> HuntNames[2], content |-> p2 \o HuntNames[3] \o q2]}
      \cup (IF hidden THEN {} ELSE {[name |-> HuntNames[3], content |-> Payload]})

Hunts(hidden) ==
    {Procedure(HuntSteps, HuntFiles(p1, q1, p2, q2, hidden)) :
        p1 \in Paddings, q1 \in Paddings, p2 \in Paddings, q2 \in Paddings}

RunHunt == \E hidden \in BOOLEAN : \E P \in Hunts(hidden) : Run(P)

NextHunt == RunHunt \/ Complete
SpecHunt == Init /\ [][NextHunt]_vars

\* ---------------------------------------------------------------- history
TrailIdx == 1..Len(trail)

\* calls of gen.next / gen.throw
Resumptions == {j \in TrailIdx : trail[j].e \in {"next", "throw"}}
\* those made by the completion callback recorded at trail position c
ResumptionsBy(c) == {j \in Resumptions : trail[j].src = c}
\* those that left the procedure suspended at a yield
Yields == {j \in Resumptions : trail[j].ran /\ trail[j].to > 0}
\* calls of run's completion callback: a completion of the current work item
Reports == {c \in TrailIdx : trail[c].e = "cb"}
\* run calling the thunk made of the item yielded at statement k
InvokesOf(k) == {i \in TrailIdx : trail[i].e = "invoke" /\ trail[i].pc = k}
Finished == gen.state \in {"completed", "failed"}

\* ------------------------------------------------------------------------
\* C11: every completion of the current work item resumes the procedure
\* exactly once: by gen.throw with the reported error when it reports an
\* error, by gen.next with the produced value otherwise; a failed
\* completion never resumes the procedure with a value as well.
C11_ResumeOnce ==
    \A c \in Reports :
        /\ Cardinality(ResumptionsBy(c)) = 1
        /\ \A j \in ResumptionsBy(c) :
              IF Truthy(trail[c].err)
              THEN trail[j].e = "throw" /\ trail[j].err = trail[c].err
              ELSE trail[j].e = "next" /\ trail[j].val = trail[c].val

\* ------------------------------------------------------------------------
\* C12: every work item the procedure yields is started by run exactly
\* once, also when the procedure yielded it after catching an injected
\* failure, and the procedure is not resumed past that yield before the
\* completion of that item has been reported.
C12_YieldedItemStarted ==
    \A j \in Yields :
        LET k == trail[j].to
        IN  /\ Cardinality(InvokesOf(k)) <= 1
            /\ Finished => InvokesOf(k) # {}
            /\ \A r \in Resumptions :
                  (trail[r].ran /\ trail[r].pc = k)
                  => \E c \in Reports : c < r /\ trail[c].id = k

\* ------------------------------------------------------------------------
\* C13: at every moment the thunks in flight all belong to one yield, and
\* the item of a later yield is started only after the completion of every
\* item yielded before it has been reported.
C13_OneItemOutstanding ==
    /\ \A a, b \in InFlight : thunks[a].step = thunks[b].step
    /\ \A i \in TrailIdx : \A j \in Yields :
          (trail[i].e = "invoke" /\ j < i /\ trail[j].to # trail[i].pc)
          => \E c \in Reports : c < i /\ trail[c].id = trail[j].to

\* ------------------------------------------------------------------------
AggIdx == 1..Len(aggs)
\* the thunks started for member i of aggregate a
MemberThunks(a, i) == {id \in 1..Len(thunks) : thunks[id].cb = MemberCallback(a, i)}
\* the completions of thunk id
CompletionsOf(id) == {e \in TrailIdx : trail[e].e = "complete" /\ trail[e].id = id}
\* the successful reports of the aggregate a yielded to run
AggReports(a) ==
    {c \in Reports : aggs[a].done = RunCallback(trail[c].id) /\ ~Truthy(trail[c].err)}

\* C14: when all members of a yielded collection succeed, the array the
\* aggregate reports holds at every index the value produced by the member
\* at that index, in whatever order the members completed.
C14_FanInOrder ==
    \A a \in AggIdx : \A c \in AggReports(a) :
        /\ trail[c].val.t = "array"
        /\ Len(trail[c].val.v) = Len(aggs[a].arr)
        /\ \A i \in 1..Len(aggs[a].arr) :
              \E id \in MemberThunks(a, i) : \E e \in CompletionsOf(id) :
                  trail[e].val = trail[c].val.v[i]

\* an aggregate of two or more members reported after a later member had
\* completed before an earlier one
C14_Witness ==
    \E a \in AggIdx : \E c \in AggReports(a) :
        \E i, j \in 1..Len(aggs[a].arr) :
            /\ i < j
            /\ \E x \in MemberThunks(a, i) : \E y \in MemberThunks(a, j) :
                  \E ex \in CompletionsOf(x) : \E ey \in CompletionsOf(y) :
                      ey < ex /\ ex < c

\* ------------------------------------------------------------------------
\* C16: a member of a yielded collection that is itself a collection is run
\* as an aggregate of its own, reporting to the member's index of the outer
\* aggregate, and no error is raised for it.
C16_NestedCollection ==
    \A a \in AggIdx : \A i \in 1..Len(aggs[a].arr) :
        aggs[a].arr[i].kind = "array"
        => /\ \E b \in AggIdx : aggs[b].done = MemberCallback(a, i)
           /\ \A e \in TrailIdx : trail[e].e = "escape" => trail[e].err # NotAFunction

\* ------------------------------------------------------------------------
\* C20: when the aggregate of a collection of thunks has been invoked,
\* every member has been started exactly once, in index order, whether or
\* not an earlier member failed, even synchronously.
C20_FanOutStart ==
    \A a \in AggIdx :
        (\A i \in 1..Len(aggs[a].arr) : aggs[a].arr[i].kind = "thunk")
        => /\ \A i \in 1..Len(aggs[a].arr) : Cardinality(MemberThunks(a, i)) = 1
           /\ \A i, j \in 1..Len(aggs[a].arr) :
                 i < j => \A x \in MemberThunks(a, i) : \A y \in MemberThunks(a, j) : x < y

\* ------------------------------------------------------------------------
\* run was called with a treasure hunt none of whose files is missing
FullHunt ==
    /\ prog.steps = HuntSteps
    /\ \A k \in 1..Len(HuntNames) : \E f \in prog.files : f.name = HuntNames[k]

\* C15: in a treasure hunt whose files are all there, run starts exactly
\* three reads, in order, each for the file the previous result names, and
\* the procedure completes with the payload as the last value it received.
C15_TreasureHunt ==
    FullHunt
    => /\ Len(thunks) <= 3
       /\ \A k \in 1..Len(thunks) : thunks[k].item = read(HuntNames[k])
       /\ \A k \in 1..Len(thunks), j \in 1..Len(thunks) :
             k < j => \E e \in CompletionsOf(k) : \A i \in TrailIdx :
                         (trail[i].e = "start" /\ trail[i].id = j) => e < i
       /\ Finished => /\ gen.state = "completed"
                      /\ Len(thunks) = 3
                      /\ gen.final = Str(Payload)

\* a hunt whose first clue has whitespace around the name has completed
C15_Witness ==
    /\ FullHunt
    /\ gen.state = "completed"
    /\ readFile(prog, HuntNames[1]).res # Str(HuntNames[2])

\* ------------------------------------------------------------------------
\* injected failures the procedure did not catch
UncaughtThrows ==
    {f \in Resumptions : /\ trail[f].e = "throw" /\ trail[f].ran
                         /\ ~prog.steps[trail[f].pc].catches}

\* C18: once an injected failure was not caught inside the procedure, the
\* coroutine is failed for good: nothing resumes the procedure's code again
\* and no further work item is started.  (run returns nothing and takes no
\* callback, so there is no value through which the failure could be
\* reported.)
C18_FailedIsTerminal ==
    \A f \in UncaughtThrows :
        /\ gen.state = "failed"
        /\ \A i \in TrailIdx :
              i > f => /\ trail[i].e \notin {"invoke", "start"}
                       /\ ~(i \in Resumptions /\ trail[i].ran)

\* after the failure, the run's callback was called once more for an item
\* that had been yielded before
C18_Witness ==
    \E f \in UncaughtThrows : \E c \in Reports : c > f

\* ------------------------------------------------------------------------
\* C19: once run has been called with a procedure of finitely many raw
\* thunks, each calling its callback exactly once, the procedure eventually
\* is completed or failed, provided every completion is delivered.
C19_RunTerminates == (prog # NoProg) ~> Finished

\* a procedure is over after a completion had to be delivered to it
C19_Witness ==
    /\ Finished
    /\ \E e \in TrailIdx : trail[e].e = "complete"

\* ------------------------------------------------------------------------
Members(a) == 1..Len(aggs[a].arr)
\* every member of aggregate a is a thunk
OfThunks(a) == \A i \in Members(a) : aggs[a].arr[i].kind = "thunk"
\* the calls of done, the completion callback of aggregate a
ReportsOf(a) == {c \in Reports : RunCallback(trail[c].id) = aggs[a].done}
\* the moments a member of aggregate a reported an error: the completion of
\* its operation, or its start when it fails before returning
FailureEvents(a) ==
    {e \in TrailIdx : \E i \in Members(a) : \E id \in MemberThunks(a, i) :
        /\ trail[e].id = id
        /\ \/ trail[e].e = "complete" /\ Truthy(trail[e].err)
           \/ trail[e].e = "start" /\ thunks[id].item.mode = "syncFail"}
\* the members of aggregate a whose callback has been called
CompletedMembers(a) ==
    {i \in Members(a) : \E id \in MemberThunks(a, i) : thunks[id].status = "called"}

\* C21: for a non-empty collection no member of which fails, done is not
\* called before every member has completed; it is then called exactly
\* once, at the completion of the last member, with no error and the fully
\* filled result array.
C21_FanInSuccess ==
    \A a \in AggIdx :
        (Len(aggs[a].arr) > 0 /\ OfThunks(a) /\ FailureEvents(a) = {})
        => IF CompletedMembers(a) = Members(a)
           THEN /\ Cardinality(ReportsOf(a)) = 1
                /\ \A c \in ReportsOf(a) :
                      /\ ~Truthy(trail[c].err)
                      /\ trail[c].val.t = "array"
                      /\ Len(trail[c].val.v) = Len(aggs[a].arr)
                      /\ \A i \in Members(a) : trail[c].val.v[i].t = "plain"
                      /\ trail[c - 1].e = "complete"
                      /\ \E i \in Members(a) : trail[c - 1].id \in MemberThunks(a, i)
           ELSE ReportsOf(a) = {}

\* an aggregate of two or more members has reported success
C21_Witness ==
    \E a \in AggIdx :
        /\ Len(aggs[a].arr) > 1
        /\ \E c \in ReportsOf(a) : ~Truthy(trail[c].err)

\* ------------------------------------------------------------------------
\* C22: every error a member reports makes the aggregate call done with
\* that error at once, whatever members are still outstanding, and repeats
\* are not suppressed: k failing members make k failure reports.
C22_FanInFailure ==
    \A a \in AggIdx :
        /\ \A e \in FailureEvents(a) :
              /\ e < Len(trail)
              /\ (e + 1) \in ReportsOf(a)
              /\ Truthy(trail[e + 1].err)
              /\ trail[e].e = "complete" => trail[e + 1].err = trail[e].err
        /\ Cardinality({c \in ReportsOf(a) : Truthy(trail[c].err)})
              = Cardinality(FailureEvents(a))

\* an aggregate has reported two failures, the first of them while another
\* member was outstanding
C22_Witness ==
    \E a \in AggIdx : \E c1, c2 \in ReportsOf(a) :
        /\ c1 < c2 /\ Truthy(trail[c1].err) /\ Truthy(trail[c2].err)
        /\ \E e \in TrailIdx : trail[e].e = "complete" /\ c1 < e /\ e < c2

\* ------------------------------------------------------------------------
\* C23: the countdown counts failed completions too: once a member has
\* failed and every member has completed, done has also been called with
\* success and the result array.
C23_CountdownAfterFailure ==
    \A a \in AggIdx :
        (OfThunks(a) /\ FailureEvents(a) # {} /\ CompletedMembers(a) = Members(a))
        => \E c \in ReportsOf(a) : ~Truthy(trail[c].err) /\ trail[c].val.t = "array"

\* ------------------------------------------------------------------------
\* the resumptions at which the procedure ran to its end
CompletedAt ==
    {j \in Resumptions : /\ trail[j].ran /\ trail[j].to = 0
                         /\ j \notin UncaughtThrows
                         /\ gen.state = "completed"}

\* C26: once the procedure has run to its end, run calls no further yielded
\* work item and no call of gen.next or gen.throw executes any of the
\* procedure's code, whatever completions are reported afterwards.
C26_CompletedIsTerminal ==
    \A j \in CompletedAt : \A i \in TrailIdx :
        i > j => /\ trail[i].e # "invoke"
                 /\ ~(i \in Resumptions /\ trail[i].ran)

\* a completion was reported to run after the procedure had run to its end
C26_Witness ==
    \E j \in CompletedAt : \E c \in Reports : c > j + 1

\* ------------------------------------------------------------------------
\* C27: the aggregate of a collection without members calls done once, with
\* success and an empty result array, so that the procedure is resumed.
C27_EmptyCollection ==
    \A a \in AggIdx :
        Len(aggs[a].arr) = 0
        => /\ Cardinality(ReportsOf(a)) = 1
           /\ \A c \in ReportsOf(a) : ~Truthy(trail[c].err) /\ trail[c].val = Arr(<< >>)

\* ------------------------------------------------------------------------
\* the resumptions of the procedure made on behalf of aggregate a
ResumedFor(a) == {j \in Resumptions : trail[j].ran /\ trail[j].src \in ReportsOf(a)}

\* C28: whatever the members of a yielded collection report, in whatever
\* order, the procedure is resumed at most once on behalf of the collection,
\* and a failure is injected only at the yield of the collection.
C28_OneResumptionPerCollection ==
    \A a \in AggIdx :
        /\ Cardinality(ResumedFor(a)) <= 1
        /\ \A j \in ResumedFor(a) :
              trail[j].e = "throw" => trail[j].pc = aggs[a].step

\* ------------------------------------------------------------------------
\* C24: in a chain whose handlers return plain values or throw, handlers are
\* invoked only while a resolve or reject call is running, and before that
\* call returns it has invoked, in chain order, the handler registered on
\* the deferred it settles and the success handler of every link that
\* follows a link whose handler returned.
C24_SynchronousNotification ==
    /\ \A i \in LogIdx : log[i].at \in OpIdx /\ IsSettleOp(log[i].at)
    /\ \A s \in OpIdx :
          (IsSettleOp(s) /\ ThensOn(ops[s].d, s) # {})
          => LET j == LastThenOn(ops[s].d, s)
             IN  IF ops[s].op = "resolve"
                 THEN Invocations(ops[j].next, "callback", s) # {}
                 ELSE ops[j].eb # NoHandler
                      => Invocations(ops[j].next, "errback", s) # {}
    /\ \A i \in LogIdx :
          ( /\ log[i].side = "callback" /\ ~log[i].thrown
            /\ log[i].ret.t # "promise"
            /\ ThensOn(log[i].reg, log[i].at) # {} )
          => \E k \in LogIdx :
                /\ k > i /\ log[k].at = log[i].at
                /\ log[k].on = log[i].reg /\ log[k].side = "callback"
    /\ \A i, k \in LogIdx :
          (i < k /\ log[i].at = log[k].at) => log[i].reg < log[k].reg

\* one resolve or reject call has invoked the handlers of two links
C24_Witness ==
    \E s \in OpIdx : \E i, k \in LogIdx :
        /\ IsSettleOp(s) /\ ops[s].d = 1
        /\ i < k /\ log[i].at = s /\ log[k].at = s

\* ------------------------------------------------------------------------
\* then calls j1 and j2 were made on the same promise, j1 first, and its
\* deferred was not settled in between
Replaced(j1, j2) ==
    /\ j1 < j2
    /\ ops[j1].op = "then" /\ ops[j2].op = "then"
    /\ ops[j1].d = ops[j2].d
    /\ ~\E c \in CallIdx :
          calls[c].d = ops[j1].d /\ j1 < calls[c].at /\ calls[c].at < j2

\* C25: a deferred holds the pair of the most recent then call made on its
\* promise only: the handlers of a then call replaced by a later one are
\* never invoked and the promise it returned is never settled.
C25_SinglePair ==
    \A j2 \in ThenOps :
        /\ (\A k \in ThenOps : ops[k].d = ops[j2].d => k <= j2)
              => defs[ops[j2].d].reg.next = ops[j2].next
        /\ \A j1 \in ThenOps :
              Replaced(j1, j2)
              => /\ \A i \in LogIdx : log[i].reg # ops[j1].next
                 /\ \A c \in CallIdx : calls[c].d # ops[j1].next

\* a deferred was settled after a second then call had replaced the first,
\* and a handler of the second ran
C25_Witness ==
    \E j1, j2 \in OpIdx :
        /\ Replaced(j1, j2)
        /\ \E i \in LogIdx : log[i].reg = ops[j2].next /\ log[i].at > j2

====
